---- MODULE Spec2Model ----
(***************************************************************************)
(* The message channel codec of steganogan-rs: src/src/utils.rs and the   *)
(* encode / decode commands of src/src/main.rs.                            *)
(*                                                                         *)
(* Bytes are naturals 0..255, bits are 0 / 1, a Rust slice or Vec is a     *)
(* sequence (1-based here, 0-based in the source: every index that is     *)
(* stored in the state keeps the source's 0-based value).                  *)
(*                                                                         *)
(* The neural encoder / decoder (src/src/model) is the channel: it is not  *)
(* modelled, the bit array that enters it and the bit array that leaves it *)
(* are.                                                                    *)
(***************************************************************************)
EXTENDS Integers, Sequences, FiniteSets, TLC

VARIABLES
    pc,        \* control location of the running command
    payload,   \* args.data as bytes (encode), or the input of a utils call
    height,    \* img.height()
    width,     \* img.width()
    message,   \* main.rs encode: `message`, one Unit of bits
    data,      \* main.rs encode: `data`, the bit stream being tiled
    recv,      \* main.rs decode: `data` of lines 105-110, the thresholded bits
    bytes,     \* main.rs decode: `data` of line 112, the packed bytes
    parts,     \* main.rs decode: `parts`, slices of bytes as [lo, hi) offsets
    k,         \* main.rs decode: number of parts the for loop has taken
    results,   \* main.rs decode: `results`, HashMap<String, usize>
    output,    \* what the command printed, or what a utils call returned
    flips      \* the number of bits the channel changed

vars == <<pc, payload, height, width, message, data, recv, bytes, parts, k, results, output, flips>>

----------------------------------------------------------------------------
(* Program constants.                                                      *)

CHUNK_SIZE == 5

ENCODED_SIZE == 30

\* ENCODED_SIZE - CHUNK_SIZE, the number of parity bytes of RS_ENC / RS_DEC.
ECC_LEN == ENCODED_SIZE - CHUNK_SIZE

----------------------------------------------------------------------------
(* Sequence helpers.                                                       *)

\* .collect(): the sequence as a value (TLC then evaluates each element once,
\* not on every read)
Vec(s) == s \o <<>>

Zeros(n) == Vec([i \in 1..n |-> 0])

\* s[lo..hi) with the source's 0-based offsets.
Slice(s, lo, hi) == Vec([i \in 1..(hi - lo) |-> s[lo + i]])

Min(a, b) == IF a < b THEN a ELSE b

\* slice.iter().take(n)
Take(s, n) == Slice(s, 0, Min(n, Len(s)))

\* slice.chunks(n): consecutive groups of n, the last one possibly shorter.
Chunks(s, n) ==
    Vec([c \in 1..((Len(s) + n - 1) \div n) |-> Slice(s, (c - 1) * n, Min(c * n, Len(s)))])

RECURSIVE Flatten(_)
Flatten(ss) == IF ss = <<>> THEN <<>> ELSE Head(ss) \o Flatten(Tail(ss))

Range(s) == {s[i] : i \in DOMAIN s}

\* Number of positions where two sequences of the same length differ.
Distance(a, b) == Cardinality({i \in DOMAIN a : a[i] # b[i]})

\* The delimiter main.rs passes to split_bytes, [0; 4], and the 32 zero bits
\* main.rs appends to the message.
Delimiter == <<0, 0, 0, 0>>

DelimiterBits == Zeros(32)

----------------------------------------------------------------------------
(* Bit packing: utils.rs bytes_to_bits, bits_to_bytes.                     *)

Pow2(i) == 2 ^ i

\* byte & 1 after i right shifts
BitOf(byte, i) == (byte \div Pow2(i)) % 2

\* bits of one byte: push(byte & 1); byte >>= 1, eight times
ByteBits(byte) == Vec([i \in 1..8 |-> BitOf(byte, i - 1)])

\* bytes_to_bits pushing the most significant bit first
bytes_to_bits_msb(bs) ==
    Vec([j \in 1..(8 * Len(bs)) |-> BitOf(bs[((j - 1) \div 8) + 1], 7 - ((j - 1) % 8))])

bytes_to_bits(bs) ==
    Vec([j \in 1..(8 * Len(bs)) |-> BitOf(bs[((j - 1) \div 8) + 1], (j - 1) % 8)])

\* byte.iter().enumerate().map(|(i, bit)| bit << i).sum() over one group of
\* at most 8 bits; u8 arithmetic (a sum of distinct powers below 256 cannot
\* overflow when every element is 0 or 1).
RECURSIVE PackFrom(_, _)
PackFrom(group, i) ==
    IF i > Len(group) THEN 0
    ELSE ((group[i] * Pow2(i - 1)) % 256) + PackFrom(group, i + 1)

PackByte(group) == PackFrom(group, 1) % 256

bits_to_bytes(bits) ==
    LET groups == Chunks(bits, 8)
    IN  Vec([g \in 1..Len(groups) |-> PackByte(groups[g])])

----------------------------------------------------------------------------
(* Reed-Solomon coder: RS_ENC / RS_DEC of utils.rs, the reed_solomon crate *)
(* built with ENCODED_SIZE - CHUNK_SIZE parity bytes.  The crate works in  *)
(* GF(2^8) with the primitive polynomial x^8+x^4+x^3+x^2+1 (0x11d) and the *)
(* generator 2; the code is systematic: encode(chunk) is the chunk         *)
(* followed by the parity bytes, so a chunk of n bytes gives n + 25 bytes. *)

RECURSIVE Xor(_, _)
Xor(a, b) ==
    IF a = 0 THEN b
    ELSE IF b = 0 THEN a
    ELSE ((a + b) % 2) + 2 * Xor(a \div 2, b \div 2)

\* the crate's exponent table: GFExp[i + 1] = 2^i in the field, i in 0..254
GFExp == <<
    1, 2, 4, 8, 16, 32, 64, 128, 29, 58, 116, 232, 205, 135, 19, 38,
    76, 152, 45, 90, 180, 117, 234, 201, 143, 3, 6, 12, 24, 48, 96, 192,
    157, 39, 78, 156, 37, 74, 148, 53, 106, 212, 181, 119, 238, 193, 159, 35,
    70, 140, 5, 10, 20, 40, 80, 160, 93, 186, 105, 210, 185, 111, 222, 161,
    95, 190, 97, 194, 153, 47, 94, 188, 101, 202, 137, 15, 30, 60, 120, 240,
    253, 231, 211, 187, 107, 214, 177, 127, 254, 225, 223, 163, 91, 182, 113, 226,
    217, 175, 67, 134, 17, 34, 68, 136, 13, 26, 52, 104, 208, 189, 103, 206,
    129, 31, 62, 124, 248, 237, 199, 147, 59, 118, 236, 197, 151, 51, 102, 204,
    133, 23, 46, 92, 184, 109, 218, 169, 79, 158, 33, 66, 132, 21, 42, 84,
    168, 77, 154, 41, 82, 164, 85, 170, 73, 146, 57, 114, 228, 213, 183, 115,
    230, 209, 191, 99, 198, 145, 63, 126, 252, 229, 215, 179, 123, 246, 241, 255,
    227, 219, 171, 75, 150, 49, 98, 196, 149, 55, 110, 220, 165, 87, 174, 65,
    130, 25, 50, 100, 200, 141, 7, 14, 28, 56, 112, 224, 221, 167, 83, 166,
    81, 162, 89, 178, 121, 242, 249, 239, 195, 155, 43, 86, 172, 69, 138, 9,
    18, 36, 72, 144, 61, 122, 244, 245, 247, 243, 251, 235, 203, 139, 11, 22,
    44, 88, 176, 125, 250, 233, 207, 131, 27, 54, 108, 216, 173, 71, 142 >>

\* the crate's logarithm table: GFLog[x] = i with 2^i = x, x in 1..255
GFLog == <<
    0, 1, 25, 2, 50, 26, 198, 3, 223, 51, 238, 27, 104, 199, 75, 4,
    100, 224, 14, 52, 141, 239, 129, 28, 193, 105, 248, 200, 8, 76, 113, 5,
    138, 101, 47, 225, 36, 15, 33, 53, 147, 142, 218, 240, 18, 130, 69, 29,
    181, 194, 125, 106, 39, 249, 185, 201, 154, 9, 120, 77, 228, 114, 166, 6,
    191, 139, 98, 102, 221, 48, 253, 226, 152, 37, 179, 16, 145, 34, 136, 54,
    208, 148, 206, 143, 150, 219, 189, 241, 210, 19, 92, 131, 56, 70, 64, 30,
    66, 182, 163, 195, 72, 126, 110, 107, 58, 40, 84, 250, 133, 186, 61, 202,
    94, 155, 159, 10, 21, 121, 43, 78, 212, 229, 172, 115, 243, 167, 87, 7,
    112, 192, 247, 140, 128, 99, 13, 103, 74, 222, 237, 49, 197, 254, 24, 227,
    165, 153, 119, 38, 184, 180, 124, 17, 68, 146, 217, 35, 32, 137, 46, 55,
    63, 209, 91, 149, 188, 207, 205, 144, 135, 151, 178, 220, 252, 190, 97, 242,
    86, 211, 171, 20, 42, 93, 158, 132, 60, 57, 83, 71, 109, 65, 162, 31,
    45, 67, 216, 183, 123, 164, 118, 196, 23, 73, 236, 127, 12, 111, 246, 108,
    161, 59, 82, 41, 157, 85, 170, 251, 96, 134, 177, 187, 204, 62, 90, 203,
    89, 95, 176, 156, 169, 160, 81, 11, 245, 22, 235, 122, 117, 44, 215, 79,
    174, 213, 233, 230, 231, 173, 232, 116, 214, 244, 234, 168, 80, 88, 175 >>

GFMul(a, b) ==
    IF a = 0 \/ b = 0 THEN 0
    ELSE GFExp[((GFLog[a] + GFLog[b]) % 255) + 1]

\* the generator polynomial the crate builds for ECC_LEN parity bytes, the
\* product of (x + 2^i) for i in 0..ECC_LEN-1, coefficients highest degree first
RSGenerator == <<
    1, 245, 49, 228, 53, 215, 6, 205, 210, 38, 82, 56, 80, 97, 139, 81,
    134, 126, 168, 98, 226, 125, 23, 171, 173, 193 >>

\* one step of the division of chunk * x^ECC_LEN by the generator: the
\* coefficient at position i is cancelled into the ECC_LEN positions after it
DivStep(buf, i) ==
    LET coef == buf[i]
    IN  IF coef = 0 THEN buf
        ELSE Vec([j \in 1..Len(buf) |->
                    IF j > i /\ j <= i + ECC_LEN
                    THEN Xor(buf[j], GFMul(RSGenerator[j - i + 1], coef))
                    ELSE buf[j]])

RECURSIVE DivFrom(_, _, _)
DivFrom(buf, i, n) == IF i > n THEN buf ELSE DivFrom(DivStep(buf, i), i + 1, n)

\* the ECC_LEN parity bytes of a chunk
RSParity(chunk) ==
    LET n == Len(chunk)
    IN  Slice(DivFrom(chunk \o Zeros(ECC_LEN), 1, n), n, n + ECC_LEN)

\* RS_ENC.encode(chunk).to_vec()
RSEncode(chunk) == chunk \o RSParity(chunk)

\* the number of byte errors per codeword the coder corrects
RSCorrectable == ECC_LEN \div 2

\* whether a received word is a codeword: its parity bytes are the parity of
\* its data bytes (equivalently, all ECC_LEN syndromes are zero).  A word of at
\* most ECC_LEN bytes has no data bytes and is a codeword only when all zero.
IsCodeword(word) ==
    LET n == Len(word)
    IN  IF n <= ECC_LEN THEN word = Zeros(n)
        ELSE RSParity(Slice(word, 0, n - ECC_LEN)) = Slice(word, n - ECC_LEN, n)

----------------------------------------------------------------------------
(* Compressor: miniz_oxide's compress_to_vec / decompress_to_vec, raw      *)
(* DEFLATE (RFC 1951).  The model's compressor writes the input as one     *)
(* final stored block (RFC 1951, 3.2.4): a header byte with BFINAL = 1 and *)
(* BTYPE = 00, LEN and its complement NLEN as two little-endian bytes each,*)
(* then the LEN bytes.  The decompressor reads stored blocks, ignores      *)
(* whatever follows the final block, and on malformed or truncated input   *)
(* fails with the output produced so far (DecompressError.output); a block *)
(* of another type is reported as malformed.                               *)

compress_to_vec(bs) ==
    LET n == Len(bs)
    IN  <<1, n % 256, n \div 256, 255 - (n % 256), 255 - (n \div 256)>> \o bs

RECURSIVE InflateFrom(_, _, _)
InflateFrom(bs, pos, out) ==
    IF pos >= Len(bs) THEN [ok |-> FALSE, output |-> out]
    ELSE LET hdr    == bs[pos + 1]
             bfinal == hdr % 2
             btype  == (hdr \div 2) % 4
         IN  IF btype # 0 \/ pos + 5 > Len(bs) THEN [ok |-> FALSE, output |-> out]
             ELSE LET len  == bs[pos + 2] + 256 * bs[pos + 3]
                      nlen == bs[pos + 4] + 256 * bs[pos + 5]
                      have == Len(bs) - (pos + 5)
                  IN  IF len + nlen # 65535 THEN [ok |-> FALSE, output |-> out]
                      ELSE IF have < len
                      THEN [ok |-> FALSE, output |-> out \o Slice(bs, pos + 5, Len(bs))]
                      ELSE IF bfinal = 1
                      THEN [ok |-> TRUE, output |-> out \o Slice(bs, pos + 5, pos + 5 + len)]
                      ELSE InflateFrom(bs, pos + 5 + len, out \o Slice(bs, pos + 5, pos + 5 + len))

decompress_to_vec(bs) == InflateFrom(bs, 0, <<>>)

----------------------------------------------------------------------------
(* Bounds of the model.                                                    *)

\* args.data has at most this many bytes
MaxPayloadLen == 6

\* img.height() is in 1..MaxHeight
MaxHeight == 9

\* a byte stream handed to the decode path directly has at most this many bytes
MaxStreamLen == 10

\* bytes_to_bits is applied to at most this many bytes
MaxPackLen == 3

\* bits_to_bytes is applied to at most this many groups of 8 bits
MaxPackGroups == 1

\* a payload handed to the codec functions directly has at most this many bytes
MaxCodecLen == 6

\* bytes of args.data (UTF-8 text: the letter 'A')
PayloadBytes == {65}

\* img.width()
Widths == {15, 30}

\* bytes of a stream handed to the decode path directly
StreamBytes == {0, 1}

\* bytes of a payload handed to the codec functions directly
CodecBytes == {0, 65, 255}

\* bytes handed to bytes_to_bits
PackBytes == {0, 1, 2, 85, 128, 254, 255}

SeqsUpTo(S, n) == UNION {[1..m -> S] : m \in 0..n}

Payloads == SeqsUpTo(PayloadBytes, MaxPayloadLen)

----------------------------------------------------------------------------
(* Codec: utils.rs bytes_to_encoded_bits, encoded_bytes_to_data.           *)

encode_chunks(compressed) ==
    LET chunks == Chunks(compressed, CHUNK_SIZE)
    IN  Flatten(Vec([c \in 1..Len(chunks) |-> RSEncode(chunks[c])]))

bytes_to_encoded_bits(bs) == bytes_to_bits(encode_chunks(compress_to_vec(bs)))

\* the data chunks the encoder can have sent: the codewords a received word
\* is compared with
KnownChunks == UNION {Range(Chunks(compress_to_vec(p), CHUNK_SIZE)) : p \in Payloads}

\* RS_DEC.correct(word, None): Ok(word) for a codeword; otherwise the one
\* codeword within RSCorrectable byte errors of the word (the all-zero word, or
\* the codeword of a chunk the encoder can have sent), and Err when there is
\* none.
RSCorrect(word) ==
    LET n    == Len(word)
        near == {c \in {Zeros(n)} \cup
                       {RSEncode(d) : d \in {x \in KnownChunks : Len(x) + ECC_LEN = n}} :
                    Distance(word, c) <= RSCorrectable}
    IN  IF IsCodeword(word) THEN [ok |-> TRUE, val |-> word]
        ELSE IF near # {} THEN [ok |-> TRUE, val |-> CHOOSE c \in near : TRUE]
        ELSE [ok |-> FALSE, val |-> <<>>]

\* decoded_chunk with an Err arm that contributes nothing
decoded_chunk_drop(chunk) ==
    LET r == RSCorrect(chunk)
    IN  IF r.ok THEN Take(r.val, CHUNK_SIZE) ELSE <<>>

\* decoded_chunk keeping ENCODED_SIZE - CHUNK_SIZE bytes instead of CHUNK_SIZE
decoded_chunk_ecc(chunk) ==
    LET r == RSCorrect(chunk)
    IN  IF r.ok THEN Take(r.val, ECC_LEN) ELSE Take(chunk, ECC_LEN)

\* the match of lines 49-52: the corrected codeword's first CHUNK_SIZE bytes,
\* or on Err the received chunk's
decoded_chunk(chunk) ==
    LET r == RSCorrect(chunk)
    IN  IF r.ok THEN Take(r.val, CHUNK_SIZE) ELSE Take(chunk, CHUNK_SIZE)

\* lines 47-54: `decoded`
decode_chunks(bs) ==
    LET chunks == Chunks(bs, ENCODED_SIZE)
    IN  Flatten(Vec([c \in 1..Len(chunks) |-> decoded_chunk(chunks[c])]))

\* the Result of encoded_bytes_to_data: Ok(decompressed), and for a failed
\* decompression Ok(err.output)
encoded_bytes_to_data(bs) ==
    LET r == decompress_to_vec(decode_chunks(bs))
    IN  [ok |-> TRUE, val |-> r.output]

----------------------------------------------------------------------------
(* Segmentation: utils.rs split_bytes.  A returned slice is kept as its    *)
(* offsets [lo, hi) into the stream.                                       *)

\* window_idxs with chunks(4) for windows(4): only the windows that start at a
\* multiple of 4 are compared
window_idxs_chunks(bs, delimeter) ==
    SelectSeq(Vec([i \in 1..(Len(bs) - 3) |-> i - 1]),
              LAMBDA idx : idx % 4 = 0 /\ Slice(bs, idx, idx + 4) = delimeter)

\* lines 70-75: every index whose 4-byte window equals the delimiter, ascending
window_idxs(bs, delimeter) ==
    SelectSeq(Vec([i \in 1..(Len(bs) - 3) |-> i - 1]),
              LAMBDA idx : Slice(bs, idx, idx + 4) = delimeter)

\* split_loop with the test of line 79 off by one: idx + 4 >= cur.len()
RECURSIVE split_loop_off(_, _, _, _)
split_loop_off(idxs, j, cur_len, acc) ==
    IF j = 0 THEN [parts |-> acc, cur_len |-> cur_len]
    ELSE LET idx == idxs[j]
         IN  IF idx + 4 >= cur_len
             THEN split_loop_off(idxs, j - 1, cur_len, acc)
             ELSE split_loop_off(idxs, j - 1, idx,
                                 Append(acc, [lo |-> idx + 4, hi |-> cur_len]))

\* split_loop without the second split_at of line 84: cur = other, which
\* still ends with the delimiter
RECURSIVE split_loop_keep(_, _, _, _)
split_loop_keep(idxs, j, cur_len, acc) ==
    IF j = 0 THEN [parts |-> acc, cur_len |-> cur_len]
    ELSE LET idx == idxs[j]
         IN  IF idx + 4 > cur_len
             THEN split_loop_keep(idxs, j - 1, cur_len, acc)
             ELSE split_loop_keep(idxs, j - 1, idx + 4,
                                  Append(acc, [lo |-> idx + 4, hi |-> cur_len]))

\* lines 78-85: the loop over idxs.iter().rev(), from position j of idxs down;
\* cur is the prefix bytes[0, cur_len)
RECURSIVE split_loop(_, _, _, _)
split_loop(idxs, j, cur_len, acc) ==
    IF j = 0 THEN [parts |-> acc, cur_len |-> cur_len]
    ELSE LET idx == idxs[j]
         IN  IF idx + 4 > cur_len
             THEN split_loop(idxs, j - 1, cur_len, acc)
             ELSE split_loop(idxs, j - 1, idx,
                             Append(acc, [lo |-> idx + 4, hi |-> cur_len]))

split_bytes(bs, delimeter) ==
    LET idxs == window_idxs(bs, delimeter)
    IN  split_loop(idxs, Len(idxs), Len(bs), <<>>).parts

\* the bytes of a returned slice
part_bytes(bs, part) == Slice(bs, part.lo, part.hi)

----------------------------------------------------------------------------
(* Text: String::from_utf8 and str::replace.  A String is kept as its      *)
(* UTF-8 bytes.                                                            *)

IsCont(b) == b >= 128 /\ b <= 191

\* whether bs[i..] (1-based i) is well-formed UTF-8
RECURSIVE Utf8From(_, _)
Utf8From(bs, i) ==
    LET n     == Len(bs)
        b     == bs[i]
        c1    == bs[i + 1]
        conts(m) == i + m <= n /\ \A j \in 1..m : IsCont(bs[i + j])
    IN  IF i > n THEN TRUE
        ELSE IF b <= 127 THEN Utf8From(bs, i + 1)
        ELSE IF b >= 194 /\ b <= 223 THEN conts(1) /\ Utf8From(bs, i + 2)
        ELSE IF b >= 224 /\ b <= 239
        THEN /\ conts(2)
             /\ (b = 224 => c1 >= 160)
             /\ (b = 237 => c1 <= 159)
             /\ Utf8From(bs, i + 3)
        ELSE IF b >= 240 /\ b <= 244
        THEN /\ conts(3)
             /\ (b = 240 => c1 >= 144)
             /\ (b = 244 => c1 <= 143)
             /\ Utf8From(bs, i + 4)
        ELSE FALSE

\* String::from_utf8(bs)
from_utf8(bs) == [ok |-> Utf8From(bs, 1), val |-> bs]

\* result.replace('\0', "")
strip_nul(text) == SelectSeq(text, LAMBDA b : b # 0)

\* line 116: encoded_bytes_to_data(part).and_then(|part| Ok(String::from_utf8(part)?))
candidate_text(bs) ==
    LET r == encoded_bytes_to_data(bs)
    IN  IF r.ok THEN from_utf8(r.val) ELSE [ok |-> FALSE, val |-> <<>>]

\* lines 86-88: map_inc
map_inc(map, key) ==
    IF key \in DOMAIN map THEN [map EXCEPT ![key] = @ + 1] ELSE map @@ (key :> 1)

\* count_part with the error of line 116 propagated by `?` instead of matched:
\* the loop is left and what was counted is lost
count_part_abort(map, bs) ==
    LET r == candidate_text(bs)
    IN  IF r.ok
        THEN (IF strip_nul(r.val) # <<>> THEN map_inc(map, strip_nul(r.val)) ELSE map)
        ELSE <<>>

\* count_part without the test of line 119
count_part_keep_empty(map, bs) ==
    LET r == candidate_text(bs)
    IN  IF r.ok THEN map_inc(map, strip_nul(r.val)) ELSE map

\* lines 116-124: the body of the for loop for one part
count_part(map, bs) ==
    LET r == candidate_text(bs)
    IN  IF r.ok
        THEN LET result == strip_nul(r.val)
             IN  IF result # <<>> THEN map_inc(map, result) ELSE map
        ELSE map

\* line 126: results.iter().max_by_key(|(_, v)| *v): a key whose count is the
\* largest; which one among equal counts depends on the HashMap's iteration
\* order
max_keys(map) == {t \in DOMAIN map : \A u \in DOMAIN map : map[u] <= map[t]}

----------------------------------------------------------------------------
(* The encode command: main.rs lines 59-66.                                *)

\* line 59: (img.height() * img.width() * 8) as usize.  The product is a u32;
\* the images of the model are far below the 2^29 pixels at which it wraps.
data_size == height * width * 8

NoOutput == [kind |-> "pending", text |-> <<>>]

NoData == [kind |-> "none", text |-> <<>>]

Text(t) == [kind |-> "text", text |-> t]

\* EncodeMessage with lines 61 and 62 exchanged: the first copy is cloned
\* before the delimiter bits are appended
EncodeMessageCloneFirst ==
    /\ pc = "encode"
    /\ message' = bytes_to_encoded_bits(payload) \o DelimiterBits
    /\ data' = bytes_to_encoded_bits(payload)
    /\ pc' = "tile"
    /\ UNCHANGED <<payload, height, width, recv, bytes, parts, k, results, output, flips>>

\* EncodeMessage without line 61: no delimiter bits after the message
EncodeMessageNoDelimiter ==
    /\ pc = "encode"
    /\ message' = bytes_to_encoded_bits(payload)
    /\ data' = message'
    /\ pc' = "tile"
    /\ UNCHANGED <<payload, height, width, recv, bytes, parts, k, results, output, flips>>

\* lines 60-62: the message, its 32 delimiter bits, and the first copy
EncodeMessage ==
    /\ pc = "encode"
    /\ message' = bytes_to_encoded_bits(payload) \o DelimiterBits
    /\ data' = message'
    /\ pc' = "tile"
    /\ UNCHANGED <<payload, height, width, recv, bytes, parts, k, results, output, flips>>

\* lines 63-65: one turn of the while loop
TileExtend ==
    /\ pc = "tile"
    /\ Len(data) < data_size
    /\ data' = data \o message
    /\ UNCHANGED <<pc, payload, height, width, message, recv, bytes, parts, k, results, output, flips>>

\* TileTruncate without line 66
TileNoTruncate ==
    /\ pc = "tile"
    /\ ~(Len(data) < data_size)
    /\ pc' = "encoded"
    /\ UNCHANGED <<payload, height, width, message, data, recv, bytes, parts, k, results, output, flips>>

\* line 66: the loop has ended; data.truncate(data_size)
TileTruncate ==
    /\ pc = "tile"
    /\ ~(Len(data) < data_size)
    /\ data' = Take(data, data_size)
    /\ pc' = "encoded"
    /\ UNCHANGED <<payload, height, width, message, recv, bytes, parts, k, results, output, flips>>

----------------------------------------------------------------------------
(* The channel: the encoder network, the saved image, the decoder network  *)
(* and the threshold of main.rs line 108.  It hands the decode command as  *)
(* many bits as the encode command gave it, unchanged or with one burst of *)
(* damaged bytes.                                                          *)

\* a burst may start at byte 30 * slot, slot in 0..MaxBurstSlot
MaxBurstSlot == 3

BurstStarts == {30 * slot : slot \in 0..MaxBurstSlot}

BurstLens == {4, 26}

BurstModes == {"invert", "zero"}

Burst(bits, start, len, mode) ==
    Vec([i \in 1..Len(bits) |->
            IF (i - 1) \div 8 >= start /\ (i - 1) \div 8 < start + len
            THEN (IF mode = "zero" THEN 0 ELSE 1 - bits[i])
            ELSE bits[i]])

ChannelClean ==
    /\ pc = "encoded"
    /\ recv' = data
    /\ flips' = 0
    /\ pc' = "decode"
    /\ message' = <<>>
    /\ data' = <<>>
    /\ UNCHANGED <<payload, height, width, bytes, parts, k, results, output>>

ChannelBurst ==
    /\ pc = "encoded"
    /\ \E start \in BurstStarts, len \in BurstLens, mode \in BurstModes :
          /\ 8 * (start + len) <= Len(data)
          /\ recv' = Burst(data, start, len, mode)
    /\ flips' = Distance(data, recv')
    /\ pc' = "decode"
    /\ message' = <<>>
    /\ data' = <<>>
    /\ UNCHANGED <<payload, height, width, bytes, parts, k, results, output>>

----------------------------------------------------------------------------
(* The decode command: main.rs lines 112-129.                              *)

\* lines 112-114
Unpack ==
    /\ pc = "decode"
    /\ bytes' = bits_to_bytes(recv)
    /\ parts' = split_bytes(bytes', Delimiter)
    /\ results' = <<>>
    /\ k' = 0
    /\ pc' = "candidates"
    /\ UNCHANGED <<payload, height, width, message, data, recv, output, flips>>

\* lines 115-125: one turn of the for loop over parts
Candidate ==
    /\ pc = "candidates"
    /\ k < Len(parts)
    /\ results' = count_part(results, part_bytes(bytes, parts[k + 1]))
    /\ k' = k + 1
    /\ UNCHANGED <<pc, payload, height, width, message, data, recv, bytes, parts, output, flips>>

\* lines 126-129
Vote ==
    /\ pc = "candidates"
    /\ k = Len(parts)
    /\ IF DOMAIN results = {}
       THEN output' = NoData
       ELSE \E t \in max_keys(results) : output' = Text(t)
    /\ pc' = "done"
    /\ UNCHANGED <<payload, height, width, message, data, recv, bytes, parts, k, results, flips>>

----------------------------------------------------------------------------
(* Specifications.                                                         *)

\* encode, the channel, decode
Init ==
    /\ pc = "encode"
    /\ payload \in Payloads
    /\ height \in 1..MaxHeight
    /\ width \in Widths
    /\ message = <<>>
    /\ data = <<>>
    /\ recv = <<>>
    /\ bytes = <<>>
    /\ parts = <<>>
    /\ k = 0
    /\ results = <<>>
    /\ output = NoOutput
    /\ flips = 0

Next ==
    \/ EncodeMessage
    \/ TileExtend
    \/ TileTruncate
    \/ ChannelClean
    \/ ChannelBurst
    \/ Unpack
    \/ Candidate
    \/ Vote

Spec == Init /\ [][Next]_vars

\* the encode command alone
NextEncode ==
    \/ EncodeMessage
    \/ TileExtend
    \/ TileTruncate

SpecEncode == Init /\ [][NextEncode]_vars

\* the decode command on an arbitrary short byte stream
InitDecode ==
    /\ pc = "decode"
    /\ payload = <<>>
    /\ height = 0
    /\ width = 0
    /\ message = <<>>
    /\ data = <<>>
    /\ \E stream \in SeqsUpTo(StreamBytes, MaxStreamLen) : recv = bytes_to_bits(stream)
    /\ bytes = <<>>
    /\ parts = <<>>
    /\ k = 0
    /\ results = <<>>
    /\ output = NoOutput
    /\ flips = 0

NextDecode ==
    \/ Unpack
    \/ Candidate
    \/ Vote

SpecDecode == InitDecode /\ [][NextDecode]_vars

\* both commands: the decode command after an encode command and the
\* channel, and the decode command on an arbitrary short stream
InitAny == Init \/ InitDecode

SpecAny == InitAny /\ [][Next]_vars

\* the decode command on a stream of zero bytes
MaxZeroLen == 40

InitZero ==
    /\ pc = "decode"
    /\ payload = <<>>
    /\ height = 0
    /\ width = 0
    /\ message = <<>>
    /\ data = <<>>
    /\ \E n \in 0..MaxZeroLen : recv = bytes_to_bits(Zeros(n))
    /\ bytes = <<>>
    /\ parts = <<>>
    /\ k = 0
    /\ results = <<>>
    /\ output = NoOutput
    /\ flips = 0

\* The command is single-threaded and runs each step to completion: a step
\* that can be taken is taken.
SpecZero == InitZero /\ [][NextDecode]_vars /\ WF_vars(NextDecode)

----------------------------------------------------------------------------
(* The codec functions called directly, as in the test of utils.rs lines   *)
(* 151-157: bytes_to_encoded_bits, bits_to_bytes, encoded_bytes_to_data.   *)

InitCodec ==
    /\ pc = "codec"
    /\ payload \in SeqsUpTo(CodecBytes, MaxCodecLen)
    /\ height = 0
    /\ width = 0
    /\ message = <<>>
    /\ data = <<>>
    /\ recv = <<>>
    /\ bytes = <<>>
    /\ parts = <<>>
    /\ k = 0
    /\ results = <<>>
    /\ output = NoOutput
    /\ flips = 0

\* line 154
CodecEncode ==
    /\ pc = "codec"
    /\ data' = bytes_to_encoded_bits(payload)
    /\ pc' = "codec_bits"
    /\ UNCHANGED <<payload, height, width, message, recv, bytes, parts, k, results, output, flips>>

\* line 155: bits_to_bytes(&bits)
CodecPack ==
    /\ pc = "codec_bits"
    /\ bytes' = bits_to_bytes(data)
    /\ pc' = "codec_bytes"
    /\ UNCHANGED <<payload, height, width, message, data, recv, parts, k, results, output, flips>>

\* line 155: encoded_bytes_to_data(...)
CodecDecode ==
    /\ pc = "codec_bytes"
    /\ output' = encoded_bytes_to_data(bytes)
    /\ pc' = "codec_done"
    /\ UNCHANGED <<payload, height, width, message, data, recv, bytes, parts, k, results, flips>>

NextCodec ==
    \/ CodecEncode
    \/ CodecPack
    \/ CodecDecode

SpecCodec == InitCodec /\ [][NextCodec]_vars

----------------------------------------------------------------------------
(* encoded_bytes_to_data on a damaged stream of codewords: what            *)
(* bytes_to_encoded_bits wrote, each codeword left alone or with some of   *)
(* its bytes inverted.                                                     *)

\* none; 12 bytes from the codeword's first on (the most correct() repairs);
\* 13 bytes from the first on; 13 parity bytes
DamageKinds == {"none", "limit", "heavy", "parity"}

\* whether the byte at offset off of a codeword is inverted
Damaged(kind, off) ==
    \/ kind = "limit" /\ off < RSCorrectable
    \/ kind = "heavy" /\ off < RSCorrectable + 1
    \/ kind = "parity" /\ off >= CHUNK_SIZE /\ off < CHUNK_SIZE + RSCorrectable + 1

\* dmg[c] is the damage of codeword c
Damage(bits, dmg) ==
    Vec([i \in 1..Len(bits) |->
            LET byte == (i - 1) \div 8
            IN  IF Damaged(dmg[byte \div ENCODED_SIZE + 1], byte % ENCODED_SIZE)
                THEN 1 - bits[i]
                ELSE bits[i]])

InitFec ==
    /\ pc = "fec"
    /\ payload \in Payloads
    /\ height = 0
    /\ width = 0
    /\ message = <<>>
    /\ data = <<>>
    /\ recv = <<>>
    /\ bytes = <<>>
    /\ parts = <<>>
    /\ k = 0
    /\ results = <<>>
    /\ output = NoOutput
    /\ flips = 0

\* utils.rs lines 29-44
FecEncode ==
    /\ pc = "fec"
    /\ message' = bytes_to_encoded_bits(payload)
    /\ pc' = "fec_sent"
    /\ UNCHANGED <<payload, height, width, data, recv, bytes, parts, k, results, output, flips>>

FecChannel ==
    /\ pc = "fec_sent"
    /\ \E dmg \in [1..((Len(message) \div 8 + ENCODED_SIZE - 1) \div ENCODED_SIZE) -> DamageKinds] :
          recv' = Damage(message, dmg)
    /\ flips' = Distance(message, recv')
    /\ pc' = "fec_recv"
    /\ UNCHANGED <<payload, height, width, message, data, bytes, parts, k, results, output>>

\* bits_to_bytes, then encoded_bytes_to_data: `decoded` of lines 47-54 is kept
\* in data, the returned Result in output
FecDecode ==
    /\ pc = "fec_recv"
    /\ bytes' = bits_to_bytes(recv)
    /\ data' = decode_chunks(bytes')
    /\ output' = encoded_bytes_to_data(bytes')
    /\ pc' = "fec_done"
    /\ UNCHANGED <<payload, height, width, message, recv, parts, k, results, flips>>

NextFec ==
    \/ FecEncode
    \/ FecChannel
    \/ FecDecode

SpecFec == InitFec /\ [][NextFec]_vars

----------------------------------------------------------------------------
(* The bit packer called directly: bytes to bits and back, bits to bytes   *)
(* and back.                                                               *)

BitSeqs(n) == UNION {[1..(8 * m) -> {0, 1}] : m \in 0..n}

InitPack ==
    /\ \/ pc = "pack_bytes" /\ payload \in SeqsUpTo(PackBytes, MaxPackLen) /\ recv = <<>>
       \/ pc = "pack_bits" /\ payload = <<>> /\ recv \in BitSeqs(MaxPackGroups)
    /\ height = 0
    /\ width = 0
    /\ message = <<>>
    /\ data = <<>>
    /\ bytes = <<>>
    /\ parts = <<>>
    /\ k = 0
    /\ results = <<>>
    /\ output = NoOutput
    /\ flips = 0

\* bytes_to_bits(payload)
ToBits ==
    /\ pc = "pack_bytes"
    /\ data' = bytes_to_bits(payload)
    /\ pc' = "pack_bytes_bits"
    /\ UNCHANGED <<payload, height, width, message, recv, bytes, parts, k, results, output, flips>>

\* bits_to_bytes(bytes_to_bits(payload))
ToBitsBack ==
    /\ pc = "pack_bytes_bits"
    /\ bytes' = bits_to_bytes(data)
    /\ pc' = "pack_bytes_back"
    /\ UNCHANGED <<payload, height, width, message, data, recv, parts, k, results, output, flips>>

\* bits_to_bytes(recv)
ToBytes ==
    /\ pc = "pack_bits"
    /\ bytes' = bits_to_bytes(recv)
    /\ pc' = "pack_bits_bytes"
    /\ UNCHANGED <<payload, height, width, message, data, recv, parts, k, results, output, flips>>

\* bytes_to_bits(bits_to_bytes(recv))
ToBytesBack ==
    /\ pc = "pack_bits_bytes"
    /\ data' = bytes_to_bits(bytes)
    /\ pc' = "pack_bits_back"
    /\ UNCHANGED <<payload, height, width, message, recv, bytes, parts, k, results, output, flips>>

NextPack ==
    \/ ToBits
    \/ ToBitsBack
    \/ ToBytes
    \/ ToBytesBack

SpecPack == InitPack /\ [][NextPack]_vars

----------------------------------------------------------------------------
(* Properties.                                                             *)

\* the Unit of a payload: its encoded message bits, then the 32 delimiter bits
Unit(p) == bytes_to_encoded_bits(p) \o DelimiterBits

\* C1 (exact-capacity law): when the encode command has built its bit stream,
\* the stream has exactly data_size bits, whatever the payload and the image
\* size: never fewer, never more.
C1_ExactCapacity ==
    pc = "encoded" => Len(data) = data_size

\* C1 happens: a stream that took more than one copy of the Unit and was cut
\* inside a copy.
C1_Witness ==
    /\ pc = "encoded"
    /\ data_size > Len(message)
    /\ data_size % Len(message) # 0
    /\ Len(data) = data_size

\* C10 (tiling content): when the encode command has built its bit stream, bit
\* i of the stream is bit (i mod |U|) of the payload's Unit U, for every i below
\* data_size; a stream shorter than U is a prefix of U.
C10_TilingContent ==
    pc = "encoded" =>
        LET U == Unit(payload)
        IN  /\ Len(data) >= data_size
            /\ \A i \in 0..(data_size - 1) : data[i + 1] = U[(i % Len(U)) + 1]

\* C10 happens: the capacity is below one Unit and the stream is the Unit's
\* prefix.
C10_Witness ==
    /\ pc = "encoded"
    /\ data_size < Len(Unit(payload))
    /\ data = Slice(Unit(payload), 0, data_size)

\* the value of the 8 bits that start at offset o of a bit sequence, the first
\* bit weighing 1 and the last 128
LsbFirstValue(bits, o) ==
    bits[o + 1] + 2 * bits[o + 2] + 4 * bits[o + 3] + 8 * bits[o + 4]
        + 16 * bits[o + 5] + 32 * bits[o + 6] + 64 * bits[o + 7] + 128 * bits[o + 8]

\* C9 (bit packing): bytes_to_bits gives 8 bits per byte, each 0 or 1, the
\* least significant first; bits_to_bytes gives the bytes back; and for a 0/1
\* sequence whose length is a multiple of 8, bytes_to_bits gives the sequence
\* back from its bits_to_bytes.
C9_BitPacking ==
    /\ pc \in {"pack_bytes_bits", "pack_bytes_back"} =>
          /\ Len(data) = 8 * Len(payload)
          /\ \A i \in 1..Len(data) : data[i] \in {0, 1}
          /\ \A j \in 1..Len(payload) : payload[j] = LsbFirstValue(data, 8 * (j - 1))
    /\ pc = "pack_bytes_back" => bytes = payload
    /\ pc = "pack_bits_back" => data = recv

\* C9 happens: the bits 1,0,0,0,0,0,0,0 were packed into the byte 1 and
\* unpacked into the same bits (bytes of every value are packed from bits; the
\* bytes given to bytes_to_bits are drawn from PackBytes).
C9_Witness ==
    /\ pc = "pack_bits_back"
    /\ recv = <<1, 0, 0, 0, 0, 0, 0, 0>>
    /\ bytes = <<1>>
    /\ data = recv

\* C8 (codec round trip without tiling): for every byte payload D,
\* encoded_bytes_to_data(bits_to_bytes(bytes_to_encoded_bits(D))) is Ok(D), also
\* when the compressed length is no multiple of CHUNK_SIZE and the last codeword
\* is shorter than ENCODED_SIZE.
C8_CodecRoundTrip ==
    pc = "codec_done" => output.ok /\ output.val = payload

\* C8 happens: a payload whose compressed form ends in a short chunk, so that
\* the last codeword is short, came back.
C8_Witness ==
    /\ pc = "codec_done"
    /\ payload # <<>>
    /\ Len(compress_to_vec(payload)) % CHUNK_SIZE # 0
    /\ Len(bytes) % ENCODED_SIZE # 0
    /\ output.ok
    /\ output.val = payload

\* the offsets at which the delimiter occurs in a byte stream
Occurrences(bs) == {i \in 0..(Len(bs) - 4) : Slice(bs, i, i + 4) = Delimiter}

\* no two occurrences of the set share a byte
NonOverlapping(S) == \A i, j \in S : i # j => (i + 4 <= j \/ j + 4 <= i)

\* the decode command has segmented its stream
Segmented == pc \in {"candidates", "done"}

\* C5 as claimed: a stream without any occurrence of the delimiter gives exactly
\* one candidate, the whole stream.
C5_WholeStreamCandidate ==
    (Segmented /\ Occurrences(bytes) = {}) =>
        /\ Len(parts) = 1
        /\ part_bytes(bytes, parts[1]) = bytes

\* C6 (segmentation completeness): split_bytes returns at least as many
\* candidates as any set of pairwise non-overlapping delimiter occurrences has
\* members, and a candidate that comes earlier in the result lies nearer the end
\* of the stream.
C6_Completeness ==
    Segmented =>
        /\ \A S \in SUBSET Occurrences(bytes) :
              NonOverlapping(S) => Len(parts) >= Cardinality(S)
        /\ \A a, b \in 1..Len(parts) : a < b => parts[b].hi <= parts[a].lo

\* C6 happens: a stream with overlapping occurrences gave two or more
\* candidates, one of them not empty.
C6_Witness ==
    /\ Segmented
    /\ Len(parts) >= 2
    /\ Cardinality(Occurrences(bytes)) > Len(parts)
    /\ \E a \in 1..Len(parts) : parts[a].lo < parts[a].hi

\* C7 (all-zero stream): when every byte of the stream is zero, the decode
\* command comes to its end and prints "No data found".
C7_AllZero ==
    (\A i \in 1..Len(recv) : recv[i] = 0) => <>(pc = "done" /\ output = NoData)

\* C7 happens: a stream of 8 or more zero bytes, every window of which is an
\* occurrence, was segmented into empty candidates and gave "No data found".
C7_Witness ==
    /\ pc = "done"
    /\ Len(bytes) >= 8
    /\ \A i \in 1..Len(bytes) : bytes[i] = 0
    /\ Cardinality(Occurrences(bytes)) = Len(bytes) - 3
    /\ Len(parts) >= 2
    /\ k = Len(parts)
    /\ output = NoData

\* what a candidate gives: no text (the decoding failed), or a text
Outcome(r) == [failed |-> ~r.ok, text |-> strip_nul(r.val)]

\* what the first n candidates give, in the order of the loop
Outcomes(n) ==
    Vec([j \in 1..n |-> Outcome(candidate_text(part_bytes(bytes, parts[j])))])

IsCounted(o) == ~o.failed /\ o.text # <<>>

\* the counts are the numbers of counted candidates among outs
IsTally(map, outs) ==
    /\ DOMAIN map = {outs[j].text : j \in {i \in 1..Len(outs) : IsCounted(outs[i])}}
    /\ \A t \in DOMAIN map :
          map[t] = Cardinality({j \in 1..Len(outs) : IsCounted(outs[j]) /\ outs[j].text = t})

\* the command printed a text that was counted, or "No data found" when no
\* candidate was counted
IsVerdict(out, map, outs) ==
    IF \E j \in 1..Len(outs) : IsCounted(outs[j])
    THEN /\ out.kind = "text"
         /\ out.text \in DOMAIN map
         /\ out.text # <<>>
         /\ from_utf8(out.text).ok
    ELSE out = NoData

Failed(j) == Outcomes(Len(parts))[j].failed

Counted(j) == IsCounted(Outcomes(Len(parts))[j])

\* C4 (never fatal): until it has printed, the decode command has a next step
\* (a candidate left to take, or the vote); a candidate that fails changes no
\* count, so the counts after n candidates are the numbers of counted
\* candidates among them; and the command ends with every candidate taken,
\* printing a text that was counted, or "No data found" when none was.
C4_NeverFatal ==
    /\ pc = "candidates" => (k < Len(parts) \/ k = Len(parts))
    /\ Segmented => IsTally(results, Outcomes(k))
    /\ pc = "done" => k = Len(parts) /\ IsVerdict(output, results, Outcomes(k))

\* C4 happens: a candidate was counted, a later one failed and was discarded,
\* and the command printed a text.
C4_Witness ==
    /\ pc = "done"
    /\ \E i, j \in 1..Len(parts) : i < j /\ Counted(i) /\ Failed(j)
    /\ output.kind = "text"

\* the bytes of one Unit: the encoded message and its delimiter
unit_bytes(p) == Len(encode_chunks(compress_to_vec(p))) + 4

\* the complete Units the image holds (one byte for each pixel)
copies == (height * width) \div unit_bytes(payload)

\* the encoded message neither begins with a zero byte nor holds the delimiter
NoClash(p) ==
    LET m == encode_chunks(compress_to_vec(p))
    IN  m[1] # 0 /\ Occurrences(m) = {}

copy_bytes(j) ==
    Slice(bytes, (j - 1) * unit_bytes(payload), j * unit_bytes(payload) - 4)

\* copy j decodes to the text t
CopyDecodes(j, t) ==
    LET r == candidate_text(copy_bytes(j))
    IN  r.ok /\ strip_nul(r.val) = t

\* C3 as claimed: when more than half of the copies the image holds decode to
\* the same text, the decode command prints that text.
C3_MajorityVote ==
    pc = "done" =>
        \A j \in 1..copies :
            LET r == candidate_text(copy_bytes(j))
                t == strip_nul(r.val)
            IN  (/\ r.ok
                 /\ t # <<>>
                 /\ 2 * Cardinality({i \in 1..copies : CopyDecodes(i, t)}) > copies)
                    => output = Text(t)

\* the occurrences the loop accepted: the one right before each candidate
Accepted == {parts[a].lo - 4 : a \in 1..Len(parts)}

\* the end of the remaining prefix when candidate a was emitted
RemainingEnd(a) == IF a = 1 THEN Len(bytes) ELSE parts[a - 1].lo - 4

\* C12 as claimed: every candidate is a slice that ends with the 4 bytes of
\* the occurrence it was emitted for.
C12_EndsWithDelimiter ==
    Segmented =>
        \A a \in 1..Len(parts) :
            /\ parts[a].lo + 4 <= parts[a].hi
            /\ parts[a].hi - 4 \in Occurrences(bytes)

\* C12 (tail-first emission), amended: the occurrences are taken from the end
\* of the stream backward; an occurrence at i is accepted exactly when it fits
\* in the remaining prefix, the candidate emitted for it is the slice from
\* i + 4 to the end of that prefix (the bytes after the matched delimiter), and
\* the remaining prefix then ends immediately before i.
C12_TailFirst ==
    Segmented =>
        /\ \A a \in 1..Len(parts) :
              /\ parts[a].lo - 4 \in Occurrences(bytes)
              /\ parts[a].hi = RemainingEnd(a)
              /\ parts[a].lo <= parts[a].hi
        /\ \A i \in Occurrences(bytes) :
              i \in Accepted <=> (\A j \in Accepted : j > i => i + 4 <= j)

\* C12 happens: two candidates were emitted, the later one cut at the start of
\* the occurrence accepted before it, and an occurrence that did not fit was
\* passed over.
C12_Witness ==
    /\ Segmented
    /\ Len(parts) >= 2
    /\ parts[2].hi = parts[1].lo - 4
    /\ parts[2].lo < parts[2].hi
    /\ Occurrences(bytes) \ Accepted # {}

\* C13 (disjoint candidates): the candidates are slices of the stream, no two
\* of them share a byte, and none contains four bytes equal to the delimiter.
C13_Disjoint ==
    Segmented =>
        /\ \A a \in 1..Len(parts) :
              /\ 0 <= parts[a].lo /\ parts[a].lo <= parts[a].hi
              /\ parts[a].hi <= Len(bytes)
              /\ Occurrences(part_bytes(bytes, parts[a])) = {}
        /\ \A a, b \in 1..Len(parts) :
              a # b => (parts[a].hi <= parts[b].lo \/ parts[b].hi <= parts[a].lo)

\* C13 happens: two or more candidates, one of them with a zero byte in it
\* and so with windows of the scan lying partly inside it.
C13_Witness ==
    /\ Segmented
    /\ Len(parts) >= 2
    /\ \E a \in 1..Len(parts) :
          /\ parts[a].hi - parts[a].lo >= 2
          /\ 0 \in Range(part_bytes(bytes, parts[a]))

\* the codewords as sent and as received
SentWords == Chunks(bits_to_bytes(message), ENCODED_SIZE)

RecvWords == Chunks(bytes, ENCODED_SIZE)

\* what codeword j contributed to `decoded`
Contribution(j) ==
    Slice(data, CHUNK_SIZE * (j - 1), Min(CHUNK_SIZE * j, Len(data)))

\* C11 (best-effort FEC): encoded_bytes_to_data returns Ok; every codeword
\* contributes, in order, the first 5 bytes of one word (fewer only when the
\* last codeword is shorter): a codeword with at most 12 damaged bytes those of
\* the codeword sent, and a codeword that correct() reports as uncorrectable
\* its own raw bytes.
C11_BestEffort ==
    pc = "fec_done" =>
        /\ output.ok
        /\ Len(RecvWords) = Len(SentWords)
        /\ Len(data) = IF RecvWords = <<>> THEN 0
                       ELSE CHUNK_SIZE * (Len(RecvWords) - 1)
                            + Min(CHUNK_SIZE, Len(RecvWords[Len(RecvWords)]))
        /\ \A j \in 1..Len(RecvWords) :
              IF Distance(RecvWords[j], SentWords[j]) <= RSCorrectable
              THEN Contribution(j) = Take(SentWords[j], CHUNK_SIZE)
              ELSE ~RSCorrect(RecvWords[j]).ok
                      => Contribution(j) = Take(RecvWords[j], CHUNK_SIZE)

\* C11 happens: one codeword was uncorrectable and contributed raw bytes that
\* differ from those sent, another was repaired, and the last one is shorter
\* than 30 bytes.
C11_Witness ==
    /\ pc = "fec_done"
    /\ Len(RecvWords[Len(RecvWords)]) < ENCODED_SIZE
    /\ \E i, j \in 1..Len(RecvWords) :
          /\ ~RSCorrect(RecvWords[i]).ok
          /\ Contribution(i) = Take(RecvWords[i], CHUNK_SIZE)
          /\ Contribution(i) # Take(SentWords[i], CHUNK_SIZE)
          /\ RecvWords[j] # SentWords[j]
          /\ Contribution(j) = Take(SentWords[j], CHUNK_SIZE)

====
